---- MODULE Spec2Model ----
(***************************************************************************)
(* A model of pyqueue.  The storage engine: the append-only log            *)
(* (AppendLog), the consumer offset ledger (OffsetStore) and the queue     *)
(* that composes them under one lock (PersistentQueue), driven by the      *)
(* worker threads of the broker's executor.  The broker: the line          *)
(* protocol (parse_command and the formatters), the dispatcher             *)
(* (CommandHandler.handle) and the read loop of each connection            *)
(* (PyQueueServer._handle_client).  The client: PyQueueClient.push.        *)
(*                                                                         *)
(* The log file is a sequence of bytes, framed and scanned as the code     *)
(* does.  Messages are sequences of Unicode code points below 2048, so     *)
(* that UTF-8 encoding is one or two bytes per code point.  The ledger     *)
(* file is a sequence of JSON tokens.  A socket is a sequence of bytes,    *)
(* a line of text a sequence of code points.                               *)
(***************************************************************************)
EXTENDS Integers, Sequences, FiniteSets, TLC

\* ------------------------------------------------------------------ bounds

\* Appends (whole or interrupted) that may reach the log file in one run.
MaxPushes == 3

\* Times the process may be killed in one run.
MaxCrashes == 1

\* Complete records in a generated log file (SpecReplay).
MaxRecords == 2

\* Request lines the clients may send in one run.
MaxRequests == 3

\* --------------------------------------------------------------- universes

Workers == {"w1", "w2"}

Consumers == {"c1", "c2"}

\* "a" and "e-acute": one code point that encodes to one byte, one to two.
Messages == {<<97>>, <<233>>}

None == "None"

\* ------------------------------------------------------- bytes and framing

HEADER_SIZE == 4

Min(a, b) == IF a < b THEN a ELSE b

\* f.seek(pos); f.read(n): at most n bytes, fewer at end of file.
FileRead(f, pos, n) == SubSeq(f, pos + 1, Min(pos + n, Len(f)))

\* struct.pack(">I", length)
PackHeader(length) ==
    << (length \div 16777216) % 256,
       (length \div 65536) % 256,
       (length \div 256) % 256,
       length % 256 >>

\* struct.unpack(">I", header)[0]
UnpackHeader(header) ==
    header[1] * 16777216 + header[2] * 65536 + header[3] * 256 + header[4]

\* str.encode("utf-8") of one code point (below 2048)
EncodeChar(cp) ==
    IF cp < 128 THEN <<cp>>
    ELSE <<192 + (cp \div 64), 128 + (cp % 64)>>

RECURSIVE Encode(_)
Encode(message) ==
    IF message = <<>> THEN <<>>
    ELSE EncodeChar(Head(message)) \o Encode(Tail(message))

IsContinuation(b) == b >= 128 /\ b <= 191

\* bytes.decode("utf-8"): ok is FALSE where Python raises UnicodeDecodeError.
\* One- and two-byte sequences are decoded; of the bytes from 224 on only
\* 255, which no UTF-8 text contains, reaches a file or a socket of this
\* model.
RECURSIVE Decode(_)
Decode(data) ==
    IF data = <<>> THEN [ok |-> TRUE, message |-> <<>>]
    ELSE IF data[1] < 128
    THEN LET rest == Decode(Tail(data))
         IN  [ok |-> rest.ok, message |-> <<data[1]>> \o rest.message]
    ELSE IF data[1] >= 194 /\ data[1] <= 223 /\ Len(data) >= 2
            /\ IsContinuation(data[2])
    THEN LET rest == Decode(Tail(Tail(data)))
         IN  [ok |-> rest.ok,
              message |-> <<(data[1] - 192) * 64 + (data[2] - 128)>>
                          \o rest.message]
    ELSE [ok |-> FALSE, message |-> <<>>]

\* The bytes AppendLog.append writes for one record.
Frame(data) == PackHeader(Len(data)) \o data

\* ------------------------------------------------------------- AppendLog

\* AppendLog.__init__: open(path, "ab+"), seek to the end, tell().
LogOpenOffset(f) == Len(f)

AppendFileMutant(f, data) == Frame(data)

\* AppendLog.append: the file after header + data were written and flushed.
AppendFile(f, data) == f \o Frame(data)

AppendWriteOffsetMutant(wo, data) == wo + Len(data)

\* AppendLog.append: self._write_offset += HEADER_SIZE + length
AppendWriteOffset(wo, data) == wo + HEADER_SIZE + Len(data)

ReadTruncatedDataMutant(data, length) == FALSE

\* AppendLog.read_at: "if len(data) < length: raise ValueError".
ReadTruncatedData(data, length) == Len(data) < length

\* AppendLog.read_at: ok is FALSE where the code raises ValueError.
read_at(f, offset) ==
    LET header == FileRead(f, offset, HEADER_SIZE)
    IN  IF Len(header) < HEADER_SIZE
        THEN [ok |-> FALSE, data |-> <<>>]
        ELSE LET length == UnpackHeader(header)
                 data == FileRead(f, offset + HEADER_SIZE, length)
             IN  IF ReadTruncatedData(data, length)
                 THEN [ok |-> FALSE, data |-> <<>>]
                 ELSE [ok |-> TRUE, data |-> data]

ReplayTruncatedDataMutant(data, length) == FALSE

\* AppendLog.replay: "if len(data) < length: break".
ReplayTruncatedData(data, length) == Len(data) < length

ReplayNextOffsetMutant(offset, length) == offset + length

\* AppendLog.replay: offset += self.HEADER_SIZE + length
ReplayNextOffset(offset, length) == offset + HEADER_SIZE + length

\* AppendLog.replay's loop: pos is the file position of f, offset the
\* loop's own counter.
RECURSIVE ReplayFrom(_, _, _)
ReplayFrom(f, pos, offset) ==
    LET header == FileRead(f, pos, HEADER_SIZE)
    IN  IF Len(header) = 0 \/ Len(header) < HEADER_SIZE
        THEN <<>>
        ELSE LET length == UnpackHeader(header)
                 data == FileRead(f, pos + HEADER_SIZE, length)
             IN  IF ReplayTruncatedData(data, length)
                 THEN <<>>
                 ELSE <<[offset |-> offset, data |-> data]>>
                      \o ReplayFrom(f, pos + HEADER_SIZE + Len(data),
                                    ReplayNextOffset(offset, length))

\* AppendLog.replay: the (offset, data) pairs it yields, in order.
replay(f) == ReplayFrom(f, 0, 0)

\* PersistentQueue._recover: the index keeps the offsets.
RecoverIndex(f) ==
    LET recs == replay(f) IN [i \in 1..Len(recs) |-> recs[i].offset]

\* ------------------------------------------------------------ OffsetStore

\* The table is Python's insertion-ordered dict: a sequence of entries.
EmptyTable == <<>>

HasKey(tab, consumer_id) == \E i \in 1..Len(tab) : tab[i].id = consumer_id

KeyPos(tab, consumer_id) == CHOOSE i \in 1..Len(tab) : tab[i].id = consumer_id

Keys(tab) == {tab[i].id : i \in 1..Len(tab)}

\* OffsetStore.get
get(tab, consumer_id) ==
    IF HasKey(tab, consumer_id) THEN tab[KeyPos(tab, consumer_id)].off ELSE 0

DictSetSharedMutant(tab, consumer_id, offset) ==
    LET others == [i \in 1..Len(tab) |-> [id |-> tab[i].id, off |-> offset]]
    IN  IF HasKey(tab, consumer_id)
        THEN others
        ELSE Append(others, [id |-> consumer_id, off |-> offset])

\* OffsetStore.set: self._offsets[consumer_id] = offset
DictSet(tab, consumer_id, offset) ==
    IF HasKey(tab, consumer_id)
    THEN [tab EXCEPT ![KeyPos(tab, consumer_id)].off = offset]
    ELSE Append(tab, [id |-> consumer_id, off |-> offset])

\* JSON tokens of the ledger file.
Punct(p) == [t |-> p, s |-> "", n |-> 0]

StrTok(s) == [t |-> "str", s |-> s, n |-> 0]

NumTok(n) == [t |-> "num", s |-> "", n |-> n]

RECURSIVE DumpMembers(_)
DumpMembers(tab) ==
    IF tab = <<>> THEN <<>>
    ELSE <<StrTok(tab[1].id), Punct(":"), NumTok(tab[1].off)>>
         \o (IF Len(tab) > 1 THEN <<Punct(",")>> ELSE <<>>)
         \o DumpMembers(Tail(tab))

\* json.dump(self._offsets, f): the text written, as tokens.
Dump(tab) == <<Punct("{")>> \o DumpMembers(tab) \o <<Punct("}")>>

RECURSIVE ParseMembers(_, _, _)
ParseMembers(toks, i, tab) ==
    IF i + 3 <= Len(toks) /\ toks[i].t = "str" /\ toks[i + 1].t = ":"
       /\ toks[i + 2].t = "num"
    THEN LET tab2 == DictSet(tab, toks[i].s, toks[i + 2].n)
         IN  IF toks[i + 3].t = "," THEN ParseMembers(toks, i + 4, tab2)
             ELSE IF toks[i + 3].t = "}" /\ i + 3 = Len(toks)
             THEN [ok |-> TRUE, table |-> tab2]
             ELSE [ok |-> FALSE, table |-> EmptyTable]
    ELSE [ok |-> FALSE, table |-> EmptyTable]

\* json.load(f): ok is FALSE where it raises json.JSONDecodeError.
JsonLoad(toks) ==
    IF Len(toks) >= 2 /\ toks[1].t = "{"
    THEN IF toks[2].t = "}"
         THEN [ok |-> Len(toks) = 2, table |-> EmptyTable]
         ELSE ParseMembers(toks, 2, EmptyTable)
    ELSE [ok |-> FALSE, table |-> EmptyTable]

\* Bytes of the ledger file that are not UTF-8 text.
BadBytes == [t |-> "bytes", s |-> "", n |-> 0]

NoFile == [exists |-> FALSE, toks |-> <<>>]

\* json.load(f) first reads the file as text: f.read() decodes all of it.
Readable(file) == \A i \in 1..Len(file.toks) : file.toks[i].t # "bytes"

\* OffsetStore.load raises: the file exists and f.read() raises
\* UnicodeDecodeError, which "except (json.JSONDecodeError, IOError)" does
\* not catch.
LoadRaises(file) == file.exists /\ ~Readable(file)

SaveStaleMutant(file, tab) == file

\* OffsetStore.save: open(path, "w"), json.dump, close.
Save(file, tab) == [exists |-> TRUE, toks |-> Dump(tab)]

\* OffsetStore.__init__ and load: the table after construction.
Load(file) ==
    IF file.exists
    THEN (IF JsonLoad(file.toks).ok THEN JsonLoad(file.toks).table ELSE EmptyTable)
    ELSE EmptyTable

\* OffsetStore.save interrupted: the file was truncated by open(path, "w")
\* and k tokens of the dump had been written out.
PartialSave(tab, k) == [exists |-> TRUE, toks |-> SubSeq(Dump(tab), 1, k)]

\* --------------------------------------------------------------- protocol

SPACE == 32

NEWLINE == 10

\* The characters str.strip() removes (code points below 2048).
Whitespace == {9, 10, 11, 12, 13, 28, 29, 30, 31, 32, 133, 160}

RECURSIVE LStrip(_)
LStrip(s) ==
    IF s # <<>> /\ Head(s) \in Whitespace THEN LStrip(Tail(s)) ELSE s

RECURSIVE RStrip(_)
RStrip(s) ==
    IF s # <<>> /\ s[Len(s)] \in Whitespace
    THEN RStrip(SubSeq(s, 1, Len(s) - 1))
    ELSE s

\* str.strip()
Strip(s) == RStrip(LStrip(s))

\* str.upper() of one character: the ASCII letters, and the two other
\* characters below 2048 whose upper case is an ASCII letter (dotless i,
\* long s); every other character stays outside ASCII.
UpperChar(ch) ==
    IF ch >= 97 /\ ch <= 122 THEN ch - 32
    ELSE IF ch = 305 THEN 73
    ELSE IF ch = 383 THEN 83
    ELSE ch

Upper(s) == [i \in 1..Len(s) |-> UpperChar(s[i])]

\* The position of the first occurrence of ch in s, 0 if there is none.
Find(s, ch) ==
    IF \E i \in 1..Len(s) : s[i] = ch
    THEN CHOOSE i \in 1..Len(s) : s[i] = ch /\ \A j \in 1..(i - 1) : s[j] # ch
    ELSE 0

\* line.split(" ", 1)
Split(line) ==
    IF Find(line, SPACE) = 0 THEN <<line>>
    ELSE <<SubSeq(line, 1, Find(line, SPACE) - 1),
           SubSeq(line, Find(line, SPACE) + 1, Len(line))>>

\* The values of the Command enumeration, as text.
PUSH == <<80, 85, 83, 72>>

PULL == <<80, 85, 76, 76>>

KnownCommandMutant(cmd) == TRUE

\* "cmd not in [c.value for c in Command]" is false.
KnownCommand(cmd) == cmd \in {PUSH, PULL}

NoCommand == [cmd |-> <<>>, args |-> <<>>]

\* parse_command: ok is FALSE where the code raises ProtocolError.
parse_command(line) ==
    LET stripped == Strip(line)
        parts == Split(stripped)
        cmd == Upper(parts[1])
    IN  IF stripped = <<>>
        THEN [ok |-> FALSE, reason |-> "Empty command", command |-> NoCommand]
        ELSE IF ~KnownCommand(cmd)
        THEN [ok |-> FALSE, reason |-> "Unknown command", command |-> NoCommand]
        ELSE IF Len(parts) < 2 \/ parts[2] = <<>>
        THEN [ok |-> FALSE, reason |-> "requires an argument",
              command |-> NoCommand]
        ELSE [ok |-> TRUE, reason |-> "",
              command |-> [cmd |-> cmd, args |-> <<parts[2]>>]]

\* A response: its kind, the line of text sent for it (the reason of an
\* error is kept apart, as a tag), before encoding.
Response(kind, text, reason) == [kind |-> kind, text |-> text, reason |-> reason]

NoResponse == Response("NONE", <<>>, "")

\* format_ok: "OK\n"
format_ok == Response("OK", <<79, 75, NEWLINE>>, "")

\* format_msg: f"MSG {message}\n"
format_msg(message) ==
    Response("MSG", <<77, 83, 71, SPACE>> \o message \o <<NEWLINE>>, "")

\* format_empty: "EMPTY\n"
format_empty == Response("EMPTY", <<69, 77, 80, 84, 89, NEWLINE>>, "")

\* format_error: f"ERR {reason}\n"
format_error(reason) == Response("ERR", <<69, 82, 82, SPACE, NEWLINE>>, reason)

\* ------------------------------------------------------------------ state

VARIABLES
    logFile,        \* queue.log on disk: a sequence of bytes
    ledgerFile,     \* offsets.json on disk: [exists, toks]
    phase,          \* "up", "closed" (PersistentQueue.close was called), "down"
    write_offset,   \* AppendLog._write_offset
    offsets,        \* OffsetStore._offsets
    index,          \* PersistentQueue._index
    recovered,      \* what AppendLog.replay yielded at the last construction
    lock,           \* PersistentQueue._lock: its holder, or None
    pc,             \* where each worker thread is inside push / pull
    frame,          \* each worker's local variables
    returned,       \* the latest value push / pull / __init__ returned (or raised), and to whom
    acked,          \* history: the pushes that returned, [ord, msg], in order
    received,       \* history: the messages each consumer's pulls returned
    abs,            \* history: the queue a sequential run in lock order has
    expect,         \* history: what that sequential run returns to each worker
    npush,          \* history: appends that reached the log file
    ncrash,         \* history: times the process was killed
    conn,           \* each connection's handler: where it is, its command, its response
    wire,           \* each connection's socket: bytes sent by the client, not yet read
    conv,           \* history: the lines read from, the responses written to, each connection
    client,         \* each PyQueueClient: ready or waiting, what its last call did
    server          \* PyQueueServer: _running, where stop() is, the executor

engine == <<logFile, ledgerFile, phase, write_offset, offsets, index, recovered,
            lock, pc, frame, returned, acked, received, abs, expect,
            npush, ncrash>>

net == <<conn, wire, conv, client, server>>

vars == <<engine, net>>

counters == <<npush, ncrash>>

disk == <<logFile, ledgerFile>>

memory == <<write_offset, offsets, index, recovered>>

threads == <<lock, pc, frame>>

history == <<acked, received, abs, expect>>

NoFrame == [message |-> <<>>, consumer_id |-> "", offset |-> 0, consumer_offset |-> 0]

Result(w, kind, idx, message) ==
    [worker |-> w, kind |-> kind, index |-> idx, message |-> message]

NoResult == Result(None, "NONE", 0, <<>>)

\* A connection handler awaiting reader.readline().
Reading == [st |-> "read", command |-> NoCommand, response |-> NoResponse]

\* A connection handler that left its loop: writer.close().
Closed == [st |-> "closed", command |-> NoCommand, response |-> NoResponse]

\* A connected PyQueueClient that is in no call.
Ready == [st |-> "ready", last |-> "", nrecv |-> 0, rejected |-> FALSE]

\* PyQueueServer after start(): running, stop() not called, the executor
\* taking work.
Serving == [running |-> TRUE, stop |-> "no", executor |-> "open"]

\* stop() is inside self._queue.close() or self._executor.shutdown(wait=True):
\* both block the thread of the event loop, no coroutine runs meanwhile.
LoopBlocked == server.stop \in {"close_queue", "shutdown"}

\* Two clients are connected and nothing was sent.
NetInit ==
    /\ server = Serving
    /\ conn = [w \in Workers |-> Reading]
    /\ wire = [w \in Workers |-> <<>>]
    /\ conv = [w \in Workers |-> <<>>]
    /\ client = [w \in Workers |-> Ready]

Init ==
    /\ logFile = <<>>
    /\ ledgerFile = NoFile
    /\ phase = "up"
    /\ write_offset = 0
    /\ offsets = EmptyTable
    /\ index = <<>>
    /\ recovered = <<>>
    /\ lock = None
    /\ pc = [w \in Workers |-> "idle"]
    /\ frame = [w \in Workers |-> NoFrame]
    /\ returned = NoResult
    /\ acked = <<>>
    /\ received = [c \in Consumers |-> <<>>]
    /\ abs = [msgs |-> <<>>, cur |-> [c \in Consumers |-> 0]]
    /\ expect = [w \in Workers |-> NoResult]
    /\ npush = 0
    /\ ncrash = 0
    /\ NetInit

\* ------------------------------------------------------- PersistentQueue

LockFreeMutant(l) == TRUE

\* "with self._lock": the lock can be taken.
LockFree(l) == l = None

PullLogOffsetMutant(idx, consumer_offset) == idx[Len(idx)]

\* PersistentQueue.pull: log_offset = self._index[consumer_offset]
PullLogOffset(idx, consumer_offset) == idx[consumer_offset + 1]

AdvanceMutant(consumer_offset) == consumer_offset + 2

\* PersistentQueue.pull: consumer_offset + 1
Advance(consumer_offset) == consumer_offset + 1

\* The sequential queue of the history: push and pull on it.
AbsPush(a, m) == [a EXCEPT !.msgs = Append(@, m)]

AbsPullResult(a, w, c) ==
    IF a.cur[c] < Len(a.msgs)
    THEN Result(w, "MSG", 0, a.msgs[a.cur[c] + 1])
    ELSE Result(w, "EMPTY", 0, <<>>)

AbsPull(a, c) ==
    IF a.cur[c] < Len(a.msgs) THEN [a EXCEPT !.cur[c] = @ + 1] ELSE a

\* push, first half: take the lock, encode, self._log.append(data).
BeginPush(w, m) ==
    /\ phase = "up"
    /\ pc[w] = "idle"
    /\ LockFree(lock)
    /\ npush < MaxPushes
    /\ logFile' = AppendFile(logFile, Encode(m))
    /\ write_offset' = AppendWriteOffset(write_offset, Encode(m))
    /\ lock' = w
    /\ pc' = [pc EXCEPT ![w] = "push_index"]
    /\ frame' = [frame EXCEPT ![w] = [NoFrame EXCEPT !.message = m,
                                                     !.offset = write_offset]]
    /\ npush' = npush + 1
    /\ abs' = AbsPush(abs, m)
    /\ expect' = [expect EXCEPT ![w] = Result(w, "INDEX", Len(abs.msgs), <<>>)]
    /\ UNCHANGED <<ledgerFile, phase, offsets, index, recovered, returned,
                   acked, received, ncrash>>

\* push, second half: index = len(self._index); append; return; release.
PushIndex(w) ==
    /\ pc[w] = "push_index"
    /\ index' = Append(index, frame[w].offset)
    /\ returned' = Result(w, "INDEX", Len(index), <<>>)
    /\ acked' = Append(acked, [ord |-> Len(index), msg |-> frame[w].message])
    /\ lock' = None
    /\ pc' = [pc EXCEPT ![w] = "idle"]
    /\ frame' = [frame EXCEPT ![w] = NoFrame]
    /\ expect' = [expect EXCEPT ![w] = NoResult]
    /\ UNCHANGED <<disk, phase, write_offset, offsets, recovered, received,
                   abs, counters>>

\* push on a closed log: self._file.write raises ValueError, nothing changes.
PushClosed(w, m) ==
    /\ phase = "closed"
    /\ pc[w] = "idle"
    /\ LockFree(lock)
    /\ returned' = Result(w, "ERR", 0, <<>>)
    /\ UNCHANGED <<disk, phase, memory, threads, history, counters>>

NothingNewMutant(consumer_offset, idx) == consumer_offset = Len(idx)

\* PersistentQueue.pull: "if consumer_offset >= len(self._index)"
NothingNew(consumer_offset, idx) == consumer_offset >= Len(idx)

\* pull with consumer_offset >= len(self._index): return None.
PullEmpty(w, c) ==
    /\ phase \in {"up", "closed"}
    /\ pc[w] = "idle"
    /\ LockFree(lock)
    /\ NothingNew(get(offsets, c), index)
    /\ returned' = Result(w, "EMPTY", 0, <<>>)
    /\ UNCHANGED <<disk, phase, memory, threads, history, counters>>

\* What pull reads for its cursor: ok is FALSE where self._index[...]
\* raises IndexError or read_at raises ValueError.
PullRecord(c) ==
    IF get(offsets, c) < Len(index)
    THEN read_at(logFile, PullLogOffset(index, get(offsets, c)))
    ELSE [ok |-> FALSE, data |-> <<>>]

\* pull, first half: take the lock, read the cursor, read and decode.
BeginPull(w, c) ==
    /\ phase \in {"up", "closed"}
    /\ pc[w] = "idle"
    /\ LockFree(lock)
    /\ ~NothingNew(get(offsets, c), index)
    /\ PullRecord(c).ok
    /\ Decode(PullRecord(c).data).ok
    /\ lock' = w
    /\ pc' = [pc EXCEPT ![w] = "pull_save"]
    /\ frame' = [frame EXCEPT ![w] =
                    [NoFrame EXCEPT !.consumer_id = c,
                                    !.consumer_offset = get(offsets, c),
                                    !.message = Decode(PullRecord(c).data).message]]
    /\ expect' = [expect EXCEPT ![w] = AbsPullResult(abs, w, c)]
    /\ abs' = AbsPull(abs, c)
    /\ UNCHANGED <<disk, phase, memory, returned, acked, received,
                   counters>>

\* pull where the record cannot be read or decode raises UnicodeDecodeError:
\* the exception leaves pull, the cursor is not advanced.
PullRaises(w, c) ==
    /\ phase \in {"up", "closed"}
    /\ pc[w] = "idle"
    /\ LockFree(lock)
    /\ ~NothingNew(get(offsets, c), index)
    /\ ~(PullRecord(c).ok /\ Decode(PullRecord(c).data).ok)
    /\ returned' = Result(w, "ERR", 0, <<>>)
    /\ UNCHANGED <<disk, phase, memory, threads, history, counters>>

\* pull, second half: self._offsets.set(consumer_id, consumer_offset + 1)
\* (the table, then the file), return message, release.
PullSave(w) ==
    /\ pc[w] = "pull_save"
    /\ offsets' = DictSet(offsets, frame[w].consumer_id,
                          Advance(frame[w].consumer_offset))
    /\ ledgerFile' = Save(ledgerFile, offsets')
    /\ returned' = Result(w, "MSG", 0, frame[w].message)
    /\ received' = [received EXCEPT ![frame[w].consumer_id] =
                        Append(@, frame[w].message)]
    /\ lock' = None
    /\ pc' = [pc EXCEPT ![w] = "idle"]
    /\ frame' = [frame EXCEPT ![w] = NoFrame]
    /\ expect' = [expect EXCEPT ![w] = NoResult]
    /\ UNCHANGED <<logFile, phase, write_offset, index, recovered, acked,
                   abs, counters>>

\* pull, second half, where OffsetStore.save raises OSError: set has
\* stored the new cursor in the table already; open(path, "w") failed and
\* the file is as it was, or a write failed after open emptied the file
\* and k tokens of the dump were written.  The exception leaves pull.
PullSaveFails(w, k) ==
    /\ pc[w] = "pull_save"
    /\ offsets' = DictSet(offsets, frame[w].consumer_id,
                          Advance(frame[w].consumer_offset))
    /\ \/ ledgerFile' = ledgerFile
       \/ /\ k < Len(Dump(offsets'))
          /\ ledgerFile' = PartialSave(offsets', k)
    /\ returned' = Result(w, "ERR", 0, <<>>)
    /\ lock' = None
    /\ pc' = [pc EXCEPT ![w] = "idle"]
    /\ frame' = [frame EXCEPT ![w] = NoFrame]
    /\ expect' = [expect EXCEPT ![w] = NoResult]
    /\ UNCHANGED <<logFile, phase, write_offset, index, recovered, acked,
                   received, abs, counters>>

\* PersistentQueue.close: under the lock, self._log.close().
Close ==
    /\ phase = "up"
    /\ LockFree(lock)
    /\ phase' = "closed"
    /\ UNCHANGED <<disk, memory, threads, returned, history, counters>>

\* The process ends after close, once the executor's threads are done.
Exit ==
    /\ phase = "closed"
    /\ \A w \in Workers : pc[w] = "idle"
    /\ phase' = "down"
    /\ UNCHANGED <<disk, memory, threads, returned, history, counters>>

\* PersistentQueue.__init__ on the files a previous process left.
Restart ==
    /\ phase = "down"
    /\ ~LoadRaises(ledgerFile)
    /\ phase' = "up"
    /\ write_offset' = LogOpenOffset(logFile)
    /\ offsets' = Load(ledgerFile)
    /\ recovered' = replay(logFile)
    /\ index' = RecoverIndex(logFile)
    /\ UNCHANGED <<disk, threads, returned, history, counters>>

\* PersistentQueue.__init__ raises what OffsetStore.load raised: no queue.
RestartFails ==
    /\ phase = "down"
    /\ LoadRaises(ledgerFile)
    /\ returned' = Result(None, "ERR", 0, <<>>)
    /\ UNCHANGED <<disk, phase, memory, threads, history, counters>>

\* AppendLog.append called on a log of its own: the caller keeps the
\* offsets it was given (index) and the payloads it appended (acked).
LogAppend(data) ==
    /\ phase = "up"
    /\ npush < MaxPushes
    /\ logFile' = AppendFile(logFile, data)
    /\ write_offset' = AppendWriteOffset(write_offset, data)
    /\ index' = Append(index, write_offset)
    /\ acked' = Append(acked, [ord |-> Len(acked), msg |-> data])
    /\ npush' = npush + 1
    /\ UNCHANGED <<ledgerFile, phase, offsets, recovered, threads, returned,
                   received, abs, expect, ncrash>>

\* The log file is cut from outside the process while the broker runs:
\* its last n bytes are gone, the index and the write offset are not told.
LogTruncated(n) ==
    /\ phase = "up"
    /\ lock = None
    /\ Len(logFile) = write_offset
    /\ n <= Len(logFile)
    /\ logFile' = SubSeq(logFile, 1, Len(logFile) - n)
    /\ UNCHANGED <<ledgerFile, phase, memory, threads, returned, history,
                   counters>>

\* The memory and the threads of a killed process are gone, and what its
\* calls would have returned is never seen.
ProcessGone ==
    /\ phase' = "down"
    /\ write_offset' = 0
    /\ offsets' = EmptyTable
    /\ index' = <<>>
    /\ recovered' = <<>>
    /\ lock' = None
    /\ pc' = [w \in Workers |-> "idle"]
    /\ frame' = [w \in Workers |-> NoFrame]
    /\ returned' = NoResult
    /\ expect' = [w \in Workers |-> NoResult]
    /\ UNCHANGED <<acked, received, abs>>

\* The process is killed between two writes: the files stay as they are.
Crash ==
    /\ phase \in {"up", "closed"}
    /\ ncrash < MaxCrashes
    /\ ncrash' = ncrash + 1
    /\ ProcessGone
    /\ UNCHANGED <<disk, npush>>

\* The process is killed inside AppendLog.append, when k bytes of
\* header + data, not all of them, had reached the file.
CrashInAppend(w, m, k) ==
    /\ phase = "up"
    /\ pc[w] = "idle"
    /\ LockFree(lock)
    /\ npush < MaxPushes
    /\ ncrash < MaxCrashes
    /\ ncrash' = ncrash + 1
    /\ k \in 1..(Len(Frame(Encode(m))) - 1)
    /\ logFile' = logFile \o SubSeq(Frame(Encode(m)), 1, k)
    /\ npush' = npush + 1
    /\ ProcessGone
    /\ UNCHANGED ledgerFile

\* The process is killed inside OffsetStore.save, after open(path, "w")
\* emptied the file and k tokens of the dump, not all of them, were written.
CrashInSave(w, k) ==
    /\ pc[w] = "pull_save"
    /\ ncrash < MaxCrashes
    /\ ncrash' = ncrash + 1
    /\ LET tab == DictSet(offsets, frame[w].consumer_id,
                          Advance(frame[w].consumer_offset))
       IN  /\ k \in 0..(Len(Dump(tab)) - 1)
           /\ ledgerFile' = PartialSave(tab, k)
    /\ ProcessGone
    /\ UNCHANGED <<logFile, npush>>

\* ----------------------------------------------------------------- broker

\* The consumer identity a PULL line names.
ConsumerName(c) == IF c = "c1" THEN <<99, 49>> ELSE <<99, 50>>

\* The lines a client writing to the socket itself may send: "PUSH a",
\* "push  a " (lower case, a message with a leading and a trailing space),
\* "PULL c1", " " (whitespace only), "X x" (unknown command), "PULL" (no
\* argument), and a byte that is not UTF-8.
Lines ==
    { PUSH \o <<SPACE, 97, NEWLINE>>,
      <<112, 117, 115, 104, SPACE, SPACE, 97, SPACE, NEWLINE>>,
      PULL \o <<SPACE>> \o ConsumerName("c1") \o <<NEWLINE>>,
      <<SPACE, NEWLINE>>,
      <<88, SPACE, 120, NEWLINE>>,
      PULL \o <<NEWLINE>>,
      <<255, NEWLINE>> }

\* The entries of a connection's history: a line the server read from it,
\* a response the server wrote to it.
LineEvent(line) == [ev |-> "line", kind |-> "", text |-> line, reason |-> ""]

RespEvent(r) == [ev |-> "resp", kind |-> r.kind, text |-> r.text,
                 reason |-> r.reason]

Responses(h) == SelectSeq(h, LAMBDA e : e.ev = "resp")

Count(s, ch) == Cardinality({i \in 1..Len(s) : s[i] = ch})

\* reader.readline(): the bytes up to and including the first newline.
HasLine(stream) == Find(stream, NEWLINE) # 0

FirstLine(stream) == SubSeq(stream, 1, Find(stream, NEWLINE))

AfterFirstLine(stream) == SubSeq(stream, Find(stream, NEWLINE) + 1, Len(stream))

\* Lines sent so far, read by the server or still in a socket.
Sent ==
    LET n(w) == Cardinality({i \in 1..Len(conv[w]) : conv[w][i].ev = "line"})
                + Count(wire[w], NEWLINE)
    IN  n("w1") + n("w2")

IsBlankMutant(line_str) == FALSE

\* "if not line_str: continue"
IsBlank(line_str) == line_str = <<>>

\* "while self._running": where the handler is after one iteration.
NextIteration(running) == IF running THEN Reading ELSE Closed

\* The handler took a line from its socket.
TakeLine(w) ==
    /\ phase # "down"
    /\ ~LoopBlocked
    /\ conn[w].st = "read"
    /\ HasLine(wire[w])
    /\ wire' = [wire EXCEPT ![w] = AfterFirstLine(@)]
    /\ conv' = [conv EXCEPT ![w] = Append(@, LineEvent(FirstLine(wire[w])))]
    /\ UNCHANGED <<engine, client, server>>

\* line.decode("utf-8") raises UnicodeDecodeError: an error response.
ReadUndecodable(w) ==
    /\ TakeLine(w)
    /\ ~Decode(FirstLine(wire[w])).ok
    /\ conn' = [conn EXCEPT ![w] =
                  [st |-> "write", command |-> NoCommand,
                   response |-> format_error("Invalid UTF-8 encoding")]]

\* The stripped line is empty: continue, nothing is written.
ReadBlank(w) ==
    /\ TakeLine(w)
    /\ Decode(FirstLine(wire[w])).ok
    /\ IsBlank(Strip(Decode(FirstLine(wire[w])).message))
    /\ conn' = [conn EXCEPT ![w] = NextIteration(server.running)]

\* parse_command raises ProtocolError: an error response.
ReadProtocolError(w) ==
    /\ TakeLine(w)
    /\ Decode(FirstLine(wire[w])).ok
    /\ LET line_str == Strip(Decode(FirstLine(wire[w])).message)
       IN  /\ ~IsBlank(line_str)
           /\ ~parse_command(line_str).ok
           /\ conn' = [conn EXCEPT ![w] =
                  [st |-> "write", command |-> NoCommand,
                   response |-> format_error(parse_command(line_str).reason)]]

\* The line parsed: handle(cmd) is submitted to the executor.
ReadCommand(w) ==
    /\ TakeLine(w)
    /\ server.executor = "open"
    /\ \E decoded \in {Decode(FirstLine(wire[w]))} :
          /\ decoded.ok
          /\ \E line_str \in {Strip(decoded.message)} :
                /\ ~IsBlank(line_str)
                /\ \E cmd \in {parse_command(line_str)} :
                      /\ cmd.ok
                      /\ conn' = [conn EXCEPT ![w] =
                            [st |-> "exec", command |-> cmd.command,
                             response |-> NoResponse]]

HandleOutcomeMutant(r) ==
    IF r.kind = "INDEX" THEN format_ok
    ELSE IF r.kind = "MSG" THEN format_msg(r.message)
    ELSE IF r.kind = "EMPTY" THEN format_empty
    ELSE Response("RAISED", <<>>, "")

\* CommandHandler.handle: the response for what push or pull returned, or
\* for the exception it raised ("except Exception as e").
HandleOutcome(r) ==
    IF r.kind = "INDEX" THEN format_ok
    ELSE IF r.kind = "MSG" THEN format_msg(r.message)
    ELSE IF r.kind = "EMPTY" THEN format_empty
    ELSE format_error("Exception")

\* handle(cmd) returned: the handler has its response.
Respond(w, r) ==
    /\ conn' = [conn EXCEPT ![w] = [@ EXCEPT !.st = "write", !.response = r]]
    /\ UNCHANGED <<wire, conv, client, server>>

Executing(w, cmd) ==
    /\ conn[w].st = "exec"
    /\ conn[w].command.cmd = cmd
    /\ Len(conn[w].command.args) >= 1

\* handle: PUSH, self._queue.push(message)
HandleBeginPush(w) ==
    /\ Executing(w, PUSH)
    /\ BeginPush(w, conn[w].command.args[1])
    /\ UNCHANGED net

HandlePushIndex(w) ==
    /\ PushIndex(w)
    /\ Respond(w, HandleOutcome(returned'))

HandlePushClosed(w) ==
    /\ Executing(w, PUSH)
    /\ PushClosed(w, conn[w].command.args[1])
    /\ Respond(w, HandleOutcome(returned'))

\* handle: PULL, self._queue.pull(consumer_id)
HandlePullEmpty(w) ==
    /\ Executing(w, PULL)
    /\ \E c \in Consumers :
          ConsumerName(c) = conn[w].command.args[1] /\ PullEmpty(w, c)
    /\ Respond(w, HandleOutcome(returned'))

HandleBeginPull(w) ==
    /\ Executing(w, PULL)
    /\ \E c \in Consumers :
          ConsumerName(c) = conn[w].command.args[1] /\ BeginPull(w, c)
    /\ UNCHANGED net

HandlePullRaises(w) ==
    /\ Executing(w, PULL)
    /\ \E c \in Consumers :
          ConsumerName(c) = conn[w].command.args[1] /\ PullRaises(w, c)
    /\ Respond(w, HandleOutcome(returned'))

HandlePullSave(w) ==
    /\ PullSave(w)
    /\ Respond(w, HandleOutcome(returned'))

\* handle: a command that is neither PUSH nor PULL.
HandleUnknown(w) ==
    /\ phase # "down"
    /\ conn[w].st = "exec"
    /\ conn[w].command.cmd \notin {PUSH, PULL}
    /\ Respond(w, format_error("Unknown command"))
    /\ UNCHANGED engine

\* handle: cmd.args[0] raises IndexError, which handle catches.
HandleNoArgs(w) ==
    /\ phase # "down"
    /\ conn[w].st = "exec"
    /\ conn[w].command.cmd \in {PUSH, PULL}
    /\ conn[w].command.args = <<>>
    /\ Respond(w, format_error("list index out of range"))
    /\ UNCHANGED engine

\* The parsed commands handle may be given: PUSH "a", PULL c1, PULL c2, a
\* command that is neither PUSH nor PULL ("NOP"), a PUSH without argument.
Commands ==
    { [cmd |-> PUSH, args |-> << <<97>> >>],
      [cmd |-> PULL, args |-> <<ConsumerName("c1")>>],
      [cmd |-> PULL, args |-> <<ConsumerName("c2")>>],
      [cmd |-> <<78, 79, 80>>, args |-> << <<97>> >>],
      [cmd |-> PUSH, args |-> <<>>] }

\* Calls of handle so far, returned or not.
Submitted ==
    LET n(w) == Len(Responses(conv[w]))
                + (IF conn[w].st \in {"exec", "write"} THEN 1 ELSE 0)
    IN  n("w1") + n("w2")

\* run_in_executor(self._executor, self._handler.handle, cmd)
Submit(w, command) ==
    /\ phase # "down"
    /\ ~LoopBlocked
    /\ server.executor = "open"
    /\ conn[w].st = "read"
    /\ Submitted < MaxRequests
    /\ conn' = [conn EXCEPT ![w] = [st |-> "exec", command |-> command,
                                    response |-> NoResponse]]
    /\ UNCHANGED <<engine, wire, conv, client, server>>

\* writer.write(response.encode("utf-8")); await writer.drain()
WriteResponse(w) ==
    /\ phase # "down"
    /\ ~LoopBlocked
    /\ conn[w].st = "write"
    /\ conv' = [conv EXCEPT ![w] = Append(@, RespEvent(conn[w].response))]
    /\ conn' = [conn EXCEPT ![w] = NextIteration(server.running)]
    /\ UNCHANGED <<engine, wire, client, server>>

CloseConnectionMutant(cn, w) == [v \in Workers |-> Closed]

\* The handler leaves its loop: finally, writer.close().
CloseConnection(cn, w) == [cn EXCEPT ![w] = Closed]

\* The line parsed and the executor was shut down: run_in_executor raises
\* RuntimeError, "except Exception" logs it, finally closes the connection.
ReadRefused(w) ==
    /\ TakeLine(w)
    /\ server.executor = "shutdown"
    /\ \E decoded \in {Decode(FirstLine(wire[w]))} :
          /\ decoded.ok
          /\ \E line_str \in {Strip(decoded.message)} :
                /\ ~IsBlank(line_str)
                /\ parse_command(line_str).ok
                /\ conn' = CloseConnection(conn, w)

\* The peer reset the connection: readline, or drain, raises
\* ConnectionResetError.
ConnectionReset(w) ==
    /\ phase # "down"
    /\ ~LoopBlocked
    /\ conn[w].st \in {"read", "write"}
    /\ conn' = CloseConnection(conn, w)
    /\ wire' = [wire EXCEPT ![w] = <<>>]
    /\ UNCHANGED <<engine, conv, client, server>>

\* stop(), up to self._queue.close(): self._running = False, the
\* listening socket is closed, and wait_closed() returns at once for a
\* server that is closed (CPython 3.11), so that stop() goes on to
\* self._queue.close() without giving way to another coroutine.
StopBegin ==
    /\ phase = "up"
    /\ server.stop = "no"
    /\ server' = [server EXCEPT !.running = FALSE, !.stop = "close_queue"]
    /\ UNCHANGED <<engine, conn, wire, conv, client>>

\* stop(): self._queue.close() got the lock and closed the log.
StopCloseQueue ==
    /\ server.stop = "close_queue"
    /\ Close
    /\ server' = [server EXCEPT !.stop = "shutdown"]
    /\ UNCHANGED <<conn, wire, conv, client>>

\* stop(): self._executor.shutdown(wait=True) returns when every call of
\* handle that was submitted has returned; stop() is over.
StopShutdown ==
    /\ server.stop = "shutdown"
    /\ \A w \in Workers : conn[w].st # "exec"
    /\ server' = [server EXCEPT !.stop = "stopped", !.executor = "shutdown"]
    /\ UNCHANGED <<engine, conn, wire, conv, client>>

\* The process is killed: its connections go with it.
BrokerCrash ==
    /\ Crash
    /\ conn' = [w \in Workers |-> Closed]
    /\ wire' = [w \in Workers |-> <<>>]
    /\ UNCHANGED <<conv, client, server>>

\* A client writes one line to its socket.
ClientSend(w, line) ==
    /\ phase # "down"
    /\ conn[w].st # "closed"
    /\ Sent < MaxRequests
    /\ wire' = [wire EXCEPT ![w] = @ \o line]
    /\ UNCHANGED <<engine, conn, conv, client, server>>

\* ----------------------------------------------------------------- client

\* The messages a PyQueueClient pushes: "a", and "a", newline, "b".
ClientMessages == {<<97>>, <<97, NEWLINE, 98>>}

ContainsNewlineMutant(message) == FALSE

\* '"\n" in message'
ContainsNewline(message) == \E i \in 1..Len(message) : message[i] = NEWLINE

\* PyQueueClient.push, up to self._send: ValueError for a newline, else
\* the line is written to the socket and the client waits in _receive.
ClientPush(w, message) ==
    /\ phase # "down"
    /\ conn[w].st # "closed"
    /\ client[w].st = "ready"
    /\ Sent < MaxRequests
    /\ IF ContainsNewline(message)
       THEN /\ client' = [client EXCEPT ![w].last = "ValueError",
                                        ![w].rejected = TRUE]
            /\ UNCHANGED wire
       ELSE /\ wire' = [wire EXCEPT ![w] =
                  @ \o Encode(PUSH \o <<SPACE>> \o message \o <<NEWLINE>>)]
            /\ client' = [client EXCEPT ![w].st = "awaiting", ![w].last = ""]
    /\ UNCHANGED <<engine, conn, conv, server>>

\* PyQueueClient.push, from self._receive: True for OK, PyQueueError else.
ClientReceive(w) ==
    /\ client[w].st = "awaiting"
    /\ Len(Responses(conv[w])) > client[w].nrecv
    /\ client' = [client EXCEPT
          ![w].st = "ready",
          ![w].nrecv = @ + 1,
          ![w].last = IF Responses(conv[w])[client[w].nrecv + 1].kind = "OK"
                      THEN "True" ELSE "PyQueueError"]
    /\ UNCHANGED <<engine, conn, wire, conv, server>>

\* ---------------------------------------------------------- specifications

\* Pushes and pulls from the worker threads of one running broker.
NextOps ==
    \/ \E w \in Workers, m \in Messages : BeginPush(w, m) /\ UNCHANGED net
    \/ \E w \in Workers : PushIndex(w) /\ UNCHANGED net
    \/ \E w \in Workers, c \in Consumers : PullEmpty(w, c) /\ UNCHANGED net
    \/ \E w \in Workers, c \in Consumers : BeginPull(w, c) /\ UNCHANGED net
    \/ \E w \in Workers : PullSave(w) /\ UNCHANGED net

SpecOps == Init /\ [][NextOps]_vars

\* The same, with clean stops and restarts.
NextClean ==
    \/ NextOps
    \/ \E w \in Workers, m \in Messages : PushClosed(w, m) /\ UNCHANGED net
    \/ Close /\ UNCHANGED net
    \/ Exit /\ UNCHANGED net
    \/ Restart /\ UNCHANGED net

SpecClean == Init /\ [][NextClean]_vars

\* The same, with the process killed at any point.
Next ==
    \/ NextClean
    \/ \E w \in Workers, c \in Consumers : PullRaises(w, c) /\ UNCHANGED net
    \/ Crash /\ UNCHANGED net
    \/ \E w \in Workers, m \in Messages, k \in 1..(HEADER_SIZE + 2) :
          CrashInAppend(w, m, k) /\ UNCHANGED net
    \/ \E w \in Workers, k \in 0..(4 * Cardinality(Consumers)) :
          CrashInSave(w, k) /\ UNCHANGED net

Spec == Init /\ [][Next]_vars

\* Pushes and pulls on a disk where writing the ledger file may fail.
NextFault ==
    \/ NextOps
    \/ \E w \in Workers, k \in 0..1 : PullSaveFails(w, k) /\ UNCHANGED net

SpecFault == Init /\ [][NextFault]_vars

\* Replay of generated log files: complete records, then an incomplete tail.
ReplayMessages == Messages \cup {<<>>}

RecordSeqs == UNION {[1..n -> ReplayMessages] : n \in 0..MaxRecords}

TailBytes == {0, 1, 97}

ShortHeaders == UNION {[1..n -> TailBytes] : n \in 0..(HEADER_SIZE - 1)}

TailLengths == {1, 2, 300}

ShortPayloads(length) ==
    UNION {[1..n -> TailBytes] : n \in 0..(Min(length, 3) - 1)}

\* A header of fewer than 4 bytes, or a whole header and a payload
\* shorter than the header declares.
IncompleteTails ==
    ShortHeaders
    \cup UNION {{PackHeader(length) \o p : p \in ShortPayloads(length)} :
                  length \in TailLengths}

RECURSIVE FrameAll(_)
FrameAll(msgs) ==
    IF msgs = <<>> THEN <<>>
    ELSE Frame(Encode(Head(msgs))) \o FrameAll(Tail(msgs))

InitReplay ==
    /\ \E msgs \in RecordSeqs, tail \in IncompleteTails :
          /\ logFile = FrameAll(msgs) \o tail
          /\ acked = [i \in 1..Len(msgs) |-> [ord |-> i - 1, msg |-> msgs[i]]]
          /\ abs = [msgs |-> msgs, cur |-> [c \in Consumers |-> 0]]
          /\ npush = Len(msgs)
    /\ ledgerFile = NoFile
    /\ phase = "down"
    /\ write_offset = 0
    /\ offsets = EmptyTable
    /\ index = <<>>
    /\ recovered = <<>>
    /\ lock = None
    /\ pc = [w \in Workers |-> "idle"]
    /\ frame = [w \in Workers |-> NoFrame]
    /\ returned = NoResult
    /\ received = [c \in Consumers |-> <<>>]
    /\ expect = [w \in Workers |-> NoResult]
    /\ ncrash = 0
    /\ NetInit

NextReplay == Restart /\ UNCHANGED net

SpecReplay == InitReplay /\ [][NextReplay]_vars

\* Start-up on generated ledger files: no file, an empty one, a whole or a
\* cut dump of a table, bytes that are not text.
LedgerTables ==
    { EmptyTable,
      <<[id |-> "c1", off |-> 1]>>,
      <<[id |-> "c1", off |-> 2], [id |-> "c2", off |-> 0]>>,
      <<[id |-> "c2", off |-> 1], [id |-> "c1", off |-> 1]>> }

LedgerFiles ==
    {NoFile}
    \cup UNION {{PartialSave(tab, k) : k \in 0..Len(Dump(tab))} :
                  tab \in LedgerTables}
    \cup {[exists |-> TRUE, toks |-> <<BadBytes>>],
          [exists |-> TRUE, toks |-> <<Punct("{"), BadBytes>>]}

InitLedger ==
    /\ \E msgs \in RecordSeqs :
          /\ logFile = FrameAll(msgs)
          /\ acked = [i \in 1..Len(msgs) |-> [ord |-> i - 1, msg |-> msgs[i]]]
          /\ abs = [msgs |-> msgs, cur |-> [c \in Consumers |-> 0]]
          /\ npush = Len(msgs)
    /\ ledgerFile \in LedgerFiles
    /\ phase = "down"
    /\ write_offset = 0
    /\ offsets = EmptyTable
    /\ index = <<>>
    /\ recovered = <<>>
    /\ lock = None
    /\ pc = [w \in Workers |-> "idle"]
    /\ frame = [w \in Workers |-> NoFrame]
    /\ returned = NoResult
    /\ received = [c \in Consumers |-> <<>>]
    /\ expect = [w \in Workers |-> NoResult]
    /\ ncrash = 0
    /\ NetInit

NextLedger ==
    \/ Restart /\ UNCHANGED net
    \/ RestartFails /\ UNCHANGED net
    \/ \E w \in Workers, c \in Consumers : PullEmpty(w, c) /\ UNCHANGED net
    \/ \E w \in Workers, c \in Consumers : BeginPull(w, c) /\ UNCHANGED net
    \/ \E w \in Workers : PullSave(w) /\ UNCHANGED net

SpecLedger == InitLedger /\ [][NextLedger]_vars

\* CommandHandler.handle called from two threads with any parsed command,
\* before and after the queue was closed.
NextHandler ==
    \/ \E w \in Workers, command \in Commands : Submit(w, command)
    \/ \E w \in Workers : HandleBeginPush(w)
    \/ \E w \in Workers : HandlePushIndex(w)
    \/ \E w \in Workers : HandlePushClosed(w)
    \/ \E w \in Workers : HandlePullEmpty(w)
    \/ \E w \in Workers : HandleBeginPull(w)
    \/ \E w \in Workers : HandlePullSave(w)
    \/ \E w \in Workers : HandleUnknown(w)
    \/ \E w \in Workers : HandleNoArgs(w)
    \/ \E w \in Workers : WriteResponse(w)
    \/ Close /\ UNCHANGED net

SpecHandler == Init /\ [][NextHandler]_vars

\* Payloads of 0, 1, 2, 3 and 300 bytes, bytes that are no text among them.
Payloads ==
    { <<>>, <<0>>, <<255, 0>>, <<97, 98, 99>>, [i \in 1..300 |-> 7] }

\* Appends to one AppendLog, starting from an empty file.
NextLog == \E data \in Payloads : LogAppend(data) /\ UNCHANGED net

SpecLog == Init /\ [][NextLog]_vars

\* The commands that reach the queue: PUSH "a", PULL c1, PULL c2.
QueueCommands == {command \in Commands :
                    command.cmd \in {PUSH, PULL} /\ command.args # <<>>}

\* handle called from two threads while the log file is cut, once, from
\* outside the process.
NextDamage ==
    \/ \E w \in Workers, command \in QueueCommands : Submit(w, command)
    \/ \E w \in Workers : HandleBeginPush(w)
    \/ \E w \in Workers : HandlePushIndex(w)
    \/ \E w \in Workers : HandlePullEmpty(w)
    \/ \E w \in Workers : HandleBeginPull(w)
    \/ \E w \in Workers : HandlePullRaises(w)
    \/ \E w \in Workers : HandlePullSave(w)
    \/ \E w \in Workers : WriteResponse(w)
    \/ \E n \in 1..(HEADER_SIZE + 1) : LogTruncated(n) /\ UNCHANGED net

SpecDamage == Init /\ [][NextDamage]_vars

\* A broker started on a log of whole records, with or without a cursor
\* for c1 in its ledger, and handle called from the threads of two
\* connections at once.
InitRace ==
    /\ InitLedger
    /\ ledgerFile \in {NoFile, Save(NoFile, <<[id |-> "c1", off |-> 1]>>)}

NextRace ==
    \/ Restart /\ UNCHANGED net
    \/ \E w \in Workers, command \in QueueCommands : Submit(w, command)
    \/ \E w \in Workers : HandleBeginPush(w)
    \/ \E w \in Workers : HandlePushIndex(w)
    \/ \E w \in Workers : HandlePullEmpty(w)
    \/ \E w \in Workers : HandleBeginPull(w)
    \/ \E w \in Workers : HandlePullSave(w)
    \/ \E w \in Workers : WriteResponse(w)

SpecRace == InitRace /\ [][NextRace]_vars

\* A broker serving two connections, each client writing lines of its own.
NextServer ==
    \/ \E w \in Workers, line \in Lines : ClientSend(w, line)
    \/ \E w \in Workers : ReadUndecodable(w)
    \/ \E w \in Workers : ReadBlank(w)
    \/ \E w \in Workers : ReadProtocolError(w)
    \/ \E w \in Workers : ReadCommand(w)
    \/ \E w \in Workers : HandleBeginPush(w)
    \/ \E w \in Workers : HandlePushIndex(w)
    \/ \E w \in Workers : HandlePullEmpty(w)
    \/ \E w \in Workers : HandleBeginPull(w)
    \/ \E w \in Workers : HandlePullSave(w)
    \/ \E w \in Workers : WriteResponse(w)
    \/ \E w \in Workers : ConnectionReset(w)

SpecServer == Init /\ [][NextServer]_vars

\* The lines sent to a broker that is stopped: "PUSH a", "PULL c1", " ",
\* "X x".
StopLines ==
    { PUSH \o <<SPACE, 97, NEWLINE>>,
      PULL \o <<SPACE>> \o ConsumerName("c1") \o <<NEWLINE>>,
      <<SPACE, NEWLINE>>,
      <<88, SPACE, 120, NEWLINE>> }

\* A broker serving two connections, and stop() called at any moment.
NextStop ==
    \/ \E w \in Workers, line \in StopLines : ClientSend(w, line)
    \/ \E w \in Workers : ReadBlank(w)
    \/ \E w \in Workers : ReadProtocolError(w)
    \/ \E w \in Workers : ReadCommand(w)
    \/ \E w \in Workers : ReadRefused(w)
    \/ \E w \in Workers : HandleBeginPush(w)
    \/ \E w \in Workers : HandlePushIndex(w)
    \/ \E w \in Workers : HandlePushClosed(w)
    \/ \E w \in Workers : HandlePullEmpty(w)
    \/ \E w \in Workers : HandleBeginPull(w)
    \/ \E w \in Workers : HandlePullSave(w)
    \/ \E w \in Workers : WriteResponse(w)
    \/ \E w \in Workers : ConnectionReset(w)
    \/ StopBegin
    \/ StopCloseQueue
    \/ StopShutdown

SpecStop == Init /\ [][NextStop]_vars

\* What the handler of connection w, or the worker thread that runs its
\* call of handle, does next for a peer that pushes.
ServerStep(w) ==
    \/ ReadCommand(w)
    \/ ReadRefused(w)
    \/ HandleBeginPush(w)
    \/ HandlePushIndex(w)
    \/ HandlePushClosed(w)
    \/ WriteResponse(w)

\* A broker serving two connections whose peers send "PUSH a" when they
\* like, or nothing, and stop() called at any moment.
NextHalt ==
    \/ \E w \in Workers : ClientSend(w, PUSH \o <<SPACE, 97, NEWLINE>>)
    \/ \E w \in Workers : ServerStep(w)
    \/ StopBegin
    \/ StopCloseQueue
    \/ StopShutdown

\* The event loop runs every coroutine that can go on, the executor's
\* threads are scheduled, and stop(), once called, goes on; a peer sends
\* when it likes, or never.
SpecHalt ==
    /\ Init
    /\ [][NextHalt]_vars
    /\ \A w \in Workers : WF_vars(ServerStep(w))
    /\ WF_vars(StopCloseQueue)
    /\ WF_vars(StopShutdown)

\* A broker serving two PyQueueClient objects that push.
NextClient ==
    \/ \E w \in Workers, message \in ClientMessages : ClientPush(w, message)
    \/ \E w \in Workers : ClientReceive(w)
    \/ \E w \in Workers : ReadCommand(w)
    \/ \E w \in Workers : HandleBeginPush(w)
    \/ \E w \in Workers : HandlePushIndex(w)
    \/ \E w \in Workers : WriteResponse(w)

SpecClient == Init /\ [][NextClient]_vars

\* The same, with the broker process killed at any point.
NextBroker ==
    \/ NextServer
    \/ BrokerCrash

SpecBroker == Init /\ [][NextBroker]_vars

\* ------------------------------------------------------------------ claims

AckedMessages == [i \in 1..Len(acked) |-> acked[i].msg]

IsPrefix(s, t) == Len(s) <= Len(t) /\ SubSeq(t, 1, Len(s)) = s

Cursor(c) == get(offsets, c)

\* The byte offset at which the i-th of the acknowledged records starts.
RECURSIVE StartOffset(_)
StartOffset(i) ==
    IF i = 1 THEN 0
    ELSE StartOffset(i - 1) + HEADER_SIZE + Len(Encode(acked[i - 1].msg))

\* C1: the j-th pull of a consumer returns the j-th pushed message, and a
\* pull returns None exactly when the consumer has received every pushed
\* message: N pulls give the N messages in push order, the next one None.
C1_FifoDelivery ==
    [][\A w \in Workers :
          /\ PullSave(w) =>
                LET c == frame[w].consumer_id
                IN  /\ Len(received[c]) < Len(acked)
                    /\ returned'.kind = "MSG"
                    /\ returned'.message = acked[Len(received[c]) + 1].msg
                    /\ received'[c] = SubSeq(AckedMessages, 1, Len(received[c]) + 1)
          /\ \A c \in Consumers :
                /\ PullEmpty(w, c) => received[c] = AckedMessages
                /\ BeginPull(w, c) => Len(received[c]) < Len(acked)]_vars

C1_Witness ==
    /\ Len(acked) >= 2
    /\ \A c \in Consumers : received[c] = AckedMessages
    /\ returned.kind = "EMPTY"

\* What any two consumers have received agrees position by position and
\* with the pushes; with no call in progress a cursor counts its own
\* consumer's pulls.
C2_Agreement ==
    /\ \A c, d \in Consumers :
          \A i \in 1..Min(Len(received[c]), Len(received[d])) :
             received[c][i] = received[d][i] /\ received[c][i] = acked[i].msg
    /\ lock = None => \A c \in Consumers : Cursor(c) = Len(received[c])

\* The return of a pull leaves the other cursors, the index and the log alone.
C2_NonInterference ==
    \A w \in Workers :
       PullSave(w) =>
          /\ \A d \in Consumers \ {frame[w].consumer_id} :
                get(offsets', d) = get(offsets, d)
          /\ index' = index
          /\ logFile' = logFile

\* C2: the sequences two consumers have received agree position by
\* position and are those of the pushes, under every interleaving; each
\* consumer's cursor counts its own pulls only, and a pull by one changes
\* neither the other's cursor nor the index nor the log.
C2_Broadcast == []C2_Agreement /\ [][C2_NonInterference]_vars

C2_Witness ==
    /\ Len(acked) >= 2
    /\ acked[1].msg # acked[2].msg
    /\ received["c1"] = received["c2"]
    /\ Len(received["c1"]) >= 2
    /\ returned.kind = "MSG"

\* C3: a successful pull by a consumer whose cursor is k returns the
\* message pushed with ordinal k and leaves the cursor at k + 1, whatever
\* was pushed since its previous pull.
C3_Resume ==
    [][\A w \in Workers :
          PullSave(w) =>
             LET c == frame[w].consumer_id
                 k == get(offsets, c)
             IN  /\ \E i \in 1..Len(acked) :
                       acked[i].ord = k /\ acked[i].msg = returned'.message
                 /\ get(offsets', c) = k + 1]_vars

\* The consumer had pulled k >= 1 of more than k messages when a further
\* push returned, and its next pull has read the message at ordinal k.
C3_Witness ==
    \E w \in Workers :
       /\ pc[w] = "pull_save"
       /\ returned.kind = "INDEX"
       /\ frame[w].consumer_offset >= 1
       /\ frame[w].consumer_offset < returned.index
       /\ frame[w].message = acked[frame[w].consumer_offset + 1].msg

\* C4: a restart after a clean stop rebuilds the same index, so the same
\* number of messages with the same content at every ordinal, and loads the
\* same cursor for every consumer.
C4_RestartIdempotent ==
    [][Restart =>
          /\ Len(index') = Len(index)
          /\ Len(index') = Len(acked)
          /\ \A i \in 1..Len(index') :
                /\ read_at(logFile', index'[i]) = read_at(logFile, index[i])
                /\ read_at(logFile', index'[i]).ok
                /\ read_at(logFile', index'[i]).data = Encode(acked[i].msg)
          /\ \A c \in Consumers : get(offsets', c) = get(offsets, c)
          /\ Keys(offsets') = Keys(offsets)]_vars

\* The latest return is that of the last push, every record was found by
\* a replay, and c1 had pulled before.
C4_Witness ==
    /\ phase = "up"
    /\ Len(index) >= 2
    /\ Len(recovered) = Len(index)
    /\ returned.kind = "INDEX"
    /\ returned.index = Len(index) - 1
    /\ Cursor("c1") >= 1

\* C5: after an interrupted append and a restart, every acknowledged
\* message is readable at its ordinal with its own content, so the count
\* is never below the number acknowledged, and whatever a pull delivered
\* is a message that was pushed.
C5_CrashTransparent ==
    /\ phase # "down" =>
          \A i \in 1..Len(acked) :
             /\ acked[i].ord < Len(index)
             /\ read_at(logFile, index[acked[i].ord + 1]).ok
             /\ read_at(logFile, index[acked[i].ord + 1]).data = Encode(acked[i].msg)
    /\ \A c \in Consumers : \A i \in 1..Len(received[c]) :
          \E j \in 1..Len(abs.msgs) : abs.msgs[j] = received[c][i]

\* C6: replay of complete records followed by an incomplete tail yields
\* the complete records, in order, each at its start offset, and no more.
C6_TruncationPrefix ==
    phase = "up" =>
       recovered = [i \in 1..Len(acked) |->
                      [offset |-> StartOffset(i), data |-> Encode(acked[i].msg)]]

C6_Witness ==
    /\ phase = "up"
    /\ Len(acked) >= 2
    /\ Len(recovered) = Len(acked)
    /\ Len(logFile) > StartOffset(Len(acked) + 1) + HEADER_SIZE

\* C7: the ledger file, when there is one, always holds a complete table,
\* the one before or the one after the update in progress.
C7_LedgerAtomic ==
    ledgerFile.exists =>
       /\ JsonLoad(ledgerFile.toks).ok
       /\ \A c \in Consumers :
             get(JsonLoad(ledgerFile.toks).table, c) = Len(received[c])

\* C8: while the queue is constructed, every cursor is within 0..len(index).
C8_CursorBounds ==
    phase # "down" =>
       \A c \in Consumers : 0 <= Cursor(c) /\ Cursor(c) <= Len(index)

\* C9: a successful pull advances its consumer's cursor by exactly 1 and
\* the ledger file holds the new table when it returns; no step, a restart
\* included, lowers a cursor or removes a consumer from the table.
C9_CursorLifecycle ==
    [][/\ \A c \in Consumers : get(offsets', c) >= get(offsets, c)
       /\ Keys(offsets) \subseteq Keys(offsets')
       /\ Keys(Load(ledgerFile)) \subseteq Keys(Load(ledgerFile'))
       /\ \A w \in Workers :
             PullSave(w) =>
                LET c == frame[w].consumer_id
                IN  /\ get(offsets', c) = get(offsets, c) + 1
                    /\ ledgerFile'.exists
                    /\ JsonLoad(ledgerFile'.toks).ok
                    /\ JsonLoad(ledgerFile'.toks).table = offsets']_vars

C9_Witness ==
    /\ phase = "up"
    /\ Len(recovered) >= 2
    /\ Cursor("c1") >= 2
    /\ Cursor("c2") >= 1
    /\ returned.kind = "MSG"

\* At most one worker is inside push or pull, and it holds the lock.
C10_MutualExclusion ==
    /\ Cardinality({w \in Workers : pc[w] # "idle"}) <= 1
    /\ \A w \in Workers : pc[w] # "idle" <=> lock = w

\* Ordinals are 0, 1, 2, ... in lock order; acknowledged pushes are readable.
C10_Ordinals ==
    /\ \A i \in 1..Len(acked) : acked[i].ord = i - 1
    /\ IsPrefix(AckedMessages, abs.msgs)
    /\ \A i \in 1..Len(acked) :
          /\ i <= Len(index)
          /\ read_at(logFile, index[i]) = [ok |-> TRUE, data |-> Encode(acked[i].msg)]

\* A call returns what the sequential queue returned for it.
C10_Sequential ==
    \A w \in Workers :
       /\ PushIndex(w) => returned' = expect[w]
       /\ PullSave(w) => returned' = expect[w]
       /\ \A c \in Consumers :
             PullEmpty(w, c) => returned' = AbsPullResult(abs, w, c)

\* C10: at most one worker is inside push or pull; pushes get the ordinals
\* 0, 1, 2, ... in the order they took the lock; every acknowledged push is
\* in the index and the log; every value returned is the one the
\* sequential queue returns for the same calls in lock order.
C10_TotalOrder ==
    /\ [](C10_MutualExclusion /\ C10_Ordinals)
    /\ [][C10_Sequential]_vars

\* w1's pull returned the first message and w2 is inside the second push.
C10_Witness ==
    /\ returned.worker = "w1"
    /\ returned.kind = "MSG"
    /\ Len(acked) = 1
    /\ pc["w2"] = "push_index"
    /\ lock = "w2"
    /\ expect["w2"].index = 1

\* The line asks for a pull by consumer c.
PullsFor(line, c) ==
    /\ Decode(line).ok
    /\ parse_command(Strip(Decode(line).message)).ok
    /\ parse_command(Strip(Decode(line).message)).command
          = [cmd |-> PULL, args |-> <<ConsumerName(c)>>]

\* MSG responses written to a connection in answer to a pull by c.
DeliveredTo(c) ==
    LET n(w) == Cardinality({i \in 2..Len(conv[w]) :
                    /\ conv[w][i].ev = "resp"
                    /\ conv[w][i].kind = "MSG"
                    /\ PullsFor(conv[w][i - 1].text, c)})
    IN  n("w1") + n("w2")

\* MSG responses for c that a live handler holds and has yet to write.
InFlightTo(c) ==
    Cardinality({w \in Workers :
        /\ conn[w].st = "write"
        /\ conn[w].response.kind = "MSG"
        /\ conn[w].command.args = <<ConsumerName(c)>>})

\* C11: at-least-once delivery.  The cursor a consumer has in the ledger
\* file never exceeds the number of MSG responses written to a connection
\* for that consumer, counting those a live handler is about to write.
C11_AtLeastOnce ==
    \A c \in Consumers :
        get(Load(ledgerFile), c) <= DeliveredTo(c) + InFlightTo(c)

\* The same accounting, in runs without a kill or a lost connection.
C11_Accounting ==
    (ncrash = 0 /\ \A w \in Workers : conn[w].st # "closed") => C11_AtLeastOnce

\* C12: ledger fail-open.  Whatever the ledger file holds, the start-up
\* succeeds with the table the file holds, or the empty table where it
\* holds none, and no later pull raises.
C12_LedgerFailOpen ==
    /\ [][phase = "down" =>
            /\ phase' = "up"
            /\ offsets' = (IF ledgerFile.exists /\ JsonLoad(ledgerFile.toks).ok
                           THEN JsonLoad(ledgerFile.toks).table
                           ELSE EmptyTable)]_vars
    /\ [](returned.kind # "ERR")

\* handle returned to worker w in this step.
HandleReturns(w) == conn[w].st = "exec" /\ conn'[w] # conn[w]

\* The engine call of worker w raised in this step.
EngineRaises(w) ==
    /\ returned'.worker = w
    /\ returned'.kind = "ERR"
    /\ \/ \E m \in {conn[w].command.args[1]} : PushClosed(w, m)
       \/ \E c \in Consumers : PullRaises(w, c)

C13_OneOutcome ==
    \A w \in Workers :
        HandleReturns(w) =>
            /\ conn'[w].st = "write"
            /\ conn'[w].response.kind \in {"OK", "MSG", "EMPTY", "ERR"}
            /\ (Len(conn[w].command.args) >= 1 /\ EngineRaises(w))
                  => conn'[w].response.kind = "ERR"
            /\ conn[w].command.cmd \notin {PUSH, PULL}
                  => /\ conn'[w].response.kind = "ERR"
                     /\ UNCHANGED engine

C13_NothingHeld ==
    \A w \in Workers : conn[w].st = "write" => pc[w] = "idle" /\ lock # w

\* C13: dispatcher failure isolation.  Every call of handle ends with one
\* response among OK, MSG, EMPTY and ERR; it is ERR where the engine
\* raised, and ERR with the engine untouched for a command that is neither
\* PUSH nor PULL; a call that ended holds no lock, so that the requests of
\* the other clients go on being served.
C13_DispatcherIsolation == [][C13_OneOutcome]_vars /\ []C13_NothingHeld

\* A push of the first client failed on the closed queue and was answered
\* ERR; after it the pull of the second client returned a message.
C13_Witness ==
    /\ \E i \in 1..Len(conv["w1"]) :
          conv["w1"][i].kind = "ERR" /\ conv["w1"][i].reason = "Exception"
    /\ returned.worker = "w2"
    /\ returned.kind = "MSG"
    /\ conn["w2"].st = "write"
    /\ conn["w2"].response.kind = "MSG"

\* The line is text, is not blank, and its first word is no command or
\* nothing but white space follows the command.
Malformed(line) ==
    /\ Decode(line).ok
    /\ LET text == Strip(Decode(line).message)
           parts == Split(text)
       IN  /\ text # <<>>
           /\ \/ Upper(parts[1]) \notin {PUSH, PULL}
              \/ Len(parts) < 2
              \/ Strip(parts[2]) = <<>>

\* The handler of connection w read a line in this step.
ReadsLine(w) ==
    /\ Len(conv'[w]) = Len(conv[w]) + 1
    /\ conv'[w][Len(conv'[w])].ev = "line"

\* The handler of connection w wrote its response in this step.
WritesResponse(w) ==
    /\ Len(conv'[w]) = Len(conv[w]) + 1
    /\ conv'[w][Len(conv'[w])].ev = "resp"

LineRead(w) == conv'[w][Len(conv'[w])].text

OthersUntouched(w) ==
    \A v \in Workers \ {w} :
        conn'[v] = conn[v] /\ conv'[v] = conv[v] /\ wire'[v] = wire[v]

C14_Local ==
    \A w \in Workers :
        (ReadsLine(w) /\ Malformed(LineRead(w))) =>
            /\ conn'[w].st = "write"
            /\ conn'[w].response.kind = "ERR"
            /\ UNCHANGED engine
            /\ OthersUntouched(w)

C14_StaysOpen ==
    \A w \in Workers :
        WritesResponse(w) =>
            /\ conn[w].st = "write"
            /\ conv'[w][Len(conv'[w])] = RespEvent(conn[w].response)
            /\ phase = "up" => conn'[w] = Reading
            /\ UNCHANGED engine
            /\ OthersUntouched(w)

\* C14: protocol errors are local and free of side effects.  A line whose
\* command word is unknown, or that has no argument, gives its handler an
\* ERR response with log, index, ledger and every other connection
\* unchanged and nothing handed to the executor; writing the response
\* leaves the handler reading the next line of the same connection.
C14_ProtocolErrorsLocal == [][C14_Local /\ C14_StaysOpen]_vars

\* On one connection: "X x" answered ERR, then "PUSH a" answered OK.
C14_Witness ==
    /\ Len(conv["w1"]) = 4
    /\ conv["w1"][1] = LineEvent(<<88, SPACE, 120, NEWLINE>>)
    /\ conv["w1"][2].kind = "ERR"
    /\ conv["w1"][3] = LineEvent(PUSH \o <<SPACE, 97, NEWLINE>>)
    /\ conv["w1"][4].kind = "OK"
    /\ AckedMessages = << <<97>> >>

\* C15: one response per request.  On every connection each line the
\* server read, a blank one included, is followed by exactly one response
\* before the next line is read (or is being answered, or its connection
\* is gone), and every response follows the line it answers.
C15_OneResponsePerLine ==
    \A w \in Workers : \A i \in 1..Len(conv[w]) :
        /\ conv[w][i].ev = "line" =>
              IF i < Len(conv[w]) THEN conv[w][i + 1].ev = "resp"
              ELSE conn[w].st \in {"exec", "write", "closed"}
        /\ conv[w][i].ev = "resp" => i > 1 /\ conv[w][i - 1].ev = "line"

\* The handler of connection w read a line that is not UTF-8 in this step.
ReadsUndecodable(w) == ReadsLine(w) /\ ~Decode(LineRead(w)).ok

\* C16, as claimed: a line that is not UTF-8, like a reset by the peer,
\* ends the read loop of its connection and of no other, and leaves the
\* queue as it is.
C16_FaultsTerminate ==
    [][\A w \in Workers :
          (ReadsUndecodable(w) \/ ConnectionReset(w)) =>
              /\ conn'[w] = Closed
              /\ UNCHANGED engine
              /\ OthersUntouched(w)]_vars

\* C16, amended: a reset by the peer ends the read loop of its connection;
\* a line that is not UTF-8 is answered ERR and the connection stays open;
\* either way the queue and every other connection are as they were.
C16_FaultsLocal ==
    [][\A w \in Workers :
          /\ ReadsUndecodable(w) =>
                /\ conn'[w].st = "write"
                /\ conn'[w].response = format_error("Invalid UTF-8 encoding")
                /\ UNCHANGED engine
                /\ OthersUntouched(w)
          /\ ConnectionReset(w) =>
                /\ conn'[w] = Closed
                /\ UNCHANGED engine
                /\ OthersUntouched(w)]_vars

\* The first connection got ERR for its undecodable line and then OK for
\* "PUSH a"; the second was reset, and the first is still being read.
C16_Witness ==
    /\ Len(conv["w1"]) = 4
    /\ conv["w1"][1] = LineEvent(<<255, NEWLINE>>)
    /\ conv["w1"][2].reason = "Invalid UTF-8 encoding"
    /\ conv["w1"][4].kind = "OK"
    /\ conn["w1"] = Reading
    /\ conn["w2"] = Closed

\* The line is a PUSH the server accepts.
IsPushLine(line) ==
    /\ Decode(line).ok
    /\ parse_command(Strip(Decode(line).message)).ok
    /\ parse_command(Strip(Decode(line).message)).command.cmd = PUSH

\* Everything after the first space of the line, up to its terminator.
WireMessage(line) ==
    LET body == SubSeq(Decode(line).message, 1, Len(Decode(line).message) - 1)
    IN  SubSeq(body, Find(body, SPACE) + 1, Len(body))

PushedTexts ==
    UNION {{WireMessage(conv[w][i].text) :
              i \in {j \in 1..Len(conv[w]) :
                        conv[w][j].ev = "line" /\ IsPushLine(conv[w][j].text)}} :
           w \in Workers}

\* The message of a MSG response: what stands between "MSG " and the
\* terminator.
DeliveredText(e) == SubSeq(e.text, 5, Len(e.text) - 1)

\* C18: message text round trip over the wire.  The text of every MSG
\* response is exactly what followed the first space of a PUSH line, up to
\* its terminator.
C18_WireRoundTrip ==
    \A w \in Workers : \A i \in 1..Len(conv[w]) :
        conv[w][i].kind = "MSG" => DeliveredText(conv[w][i]) \in PushedTexts

C20_NothingSent ==
    \A w \in Workers, message \in ClientMessages :
        (ClientPush(w, message)
         /\ \E i \in 1..Len(message) : message[i] = NEWLINE) =>
            /\ client'[w].st = "ready"
            /\ client'[w].last = "ValueError"
            /\ UNCHANGED <<engine, conn, wire, conv>>

C20_Usable ==
    \A w \in Workers :
        /\ Count(wire[w], NEWLINE) <= 1
        /\ wire[w] # <<>> =>
              wire[w][Len(wire[w])] = NEWLINE /\ client[w].st = "awaiting"
        /\ \A i \in 1..Len(conv[w]) :
              conv[w][i].ev = "resp" => conv[w][i].kind = "OK"
        /\ client[w].last \in {"", "ValueError", "True"}

\* C20: newline rejection.  A push of a message with a newline raises
\* ValueError and leaves the socket, the connection and the queue as they
\* were; the bytes on a socket are always at most one whole line, and every
\* push that was sent is answered OK and returns True.
C20_NewlineRejected == [][C20_NothingSent]_vars /\ []C20_Usable

\* A client whose push of "a\nb" was refused, and whose following push of
\* "a" on the same connection returned True.
C20_Witness ==
    /\ client["w1"].rejected
    /\ client["w1"].last = "True"
    /\ Len(conv["w1"]) = 2
    /\ conv["w1"][2].kind = "OK"
    /\ AckedMessages = << <<97>> >>

\* The next record of consumer c is not whole in the file: fewer than 4
\* bytes at its position, or fewer after them than they declare.
Unreadable(c) ==
    /\ Cursor(c) < Len(index)
    /\ LET pos == index[Cursor(c) + 1]
       IN  \/ Len(logFile) < pos + 4
           \/ Len(logFile) < pos + 4
                 + UnpackHeader(SubSeq(logFile, pos + 1, pos + 4))

\* Worker w ran the part of pull that reads, for consumer c, in this step.
PullStep(w, c) ==
    /\ conn[w].st = "exec"
    /\ \/ BeginPull(w, c)
       \/ (PullEmpty(w, c) \/ PullRaises(w, c)) /\ conn'[w].st = "write"

C17_PullFails ==
    \A c \in Consumers : Unreadable(c) =>
        \A w \in Workers : PullStep(w, c) =>
            /\ returned' = Result(w, "ERR", 0, <<>>)
            /\ UNCHANGED <<offsets, ledgerFile, lock, pc, received>>
            /\ conn'[w].response.kind = "ERR"

C17_NothingHeld == \A w \in Workers : pc[w] = "idle" => lock # w

\* C17: corrupt offsets.  A pull whose record is not whole in the log file
\* raises: it returns no message, the error becomes an ERR response, the
\* cursor in memory and in the ledger file stays, and the lock is free
\* again for the pushes and pulls of the others.
C17_CorruptOffset == [][C17_PullFails]_vars /\ []C17_NothingHeld

\* The pull of c1 on the cut record was answered ERR on the first
\* connection; after it a push from the second returned its ordinal.
C17_Witness ==
    /\ Len(logFile) < write_offset
    /\ received["c1"] = <<>>
    /\ \E i \in 1..Len(conv["w1"]) :
          conv["w1"][i].kind = "ERR" /\ conv["w1"][i].reason = "Exception"
    /\ Cursor("c1") = 0
    /\ returned.worker = "w2"
    /\ returned.kind = "INDEX"
    /\ conn["w2"].response.kind = "OK"

C19_RoundTrip ==
    \A i \in 1..Len(index) :
        /\ read_at(logFile, index[i]) = [ok |-> TRUE, data |-> acked[i].msg]
        /\ index[i] + HEADER_SIZE + Len(acked[i].msg)
              = (IF i < Len(index) THEN index[i + 1] ELSE write_offset)

C19_EarlierReadsKept ==
    \A i \in 1..Len(index) :
        read_at(logFile', index[i]) = read_at(logFile, index[i])

\* C19: log round trip.  After any sequence of appends, read_at of each
\* offset append returned gives back the payload appended there, each
\* offset is the one before it plus 4 plus the length of that payload, and
\* an append leaves what every earlier offset reads as it was.
C19_LogRoundTrip == []C19_RoundTrip /\ [][C19_EarlierReadsKept]_vars

\* Three appends: no byte, then 300 bytes, then one byte.
C19_Witness ==
    /\ Len(index) = 3
    /\ acked[1].msg = <<>>
    /\ Len(acked[2].msg) = 300
    /\ index = <<0, 4, 308>>
    /\ read_at(logFile, 308).data = <<0>>

\* Worker w ran pull for consumer c as far as its first return or write.
PullBegins(w, c) == BeginPull(w, c) \/ PullEmpty(w, c) \/ PullRaises(w, c)

\* A pull by a consumer beyond the index can return None.
C23_CanReturnEmpty ==
    \A c \in Consumers, w \in Workers :
        (phase = "up" /\ Cursor(c) > Len(index) /\ lock = None /\ pc[w] = "idle")
            => ENABLED PullEmpty(w, c)

\* It returns nothing else, raises nothing and changes nothing.
C23_OnlyEmpty ==
    \A c \in Consumers : Cursor(c) > Len(index) =>
        \A w \in Workers : PullBegins(w, c) =>
            /\ returned' = Result(w, "EMPTY", 0, <<>>)
            /\ UNCHANGED <<offsets, ledgerFile, index, logFile, lock, pc>>

\* C23: cursor beyond a truncated index.  A pull by a consumer whose
\* loaded cursor is greater than the length of the rebuilt index returns
\* None, the answer for "no message", and never raises; the cursor, in the
\* table and in the ledger file, the index and the log stay as they were.
C23_BeyondIndexEmpty == []C23_CanReturnEmpty /\ [][C23_OnlyEmpty]_vars

\* After a start on a ledger that puts every consumer beyond the index, a
\* pull returned None and the ledger file still holds those cursors.
C23_Witness ==
    /\ phase = "up"
    /\ \A c \in Consumers : Cursor(c) > Len(index)
    /\ returned.kind = "EMPTY"
    /\ Load(ledgerFile) = offsets

\* What is stored stays: the bytes of the log file, the entries of the
\* index, and so what every entry reads.
StoredKept ==
    /\ IsPrefix(logFile, logFile')
    /\ IsPrefix(index, index')
    /\ \A i \in 1..Len(index) :
          read_at(logFile', index'[i]) = read_at(logFile, index[i])

\* The cursors stay, in the table and in the ledger file.
CursorsKept == offsets' = offsets /\ ledgerFile' = ledgerFile

C24_PushFrame ==
    \A w \in Workers :
        ((\E m \in Messages : BeginPush(w, m) \/ PushClosed(w, m)) \/ PushIndex(w))
            => StoredKept /\ CursorsKept

C24_PullFrame ==
    \A w \in Workers :
        /\ (\E c \in Consumers : BeginPull(w, c)) =>
              UNCHANGED <<logFile, write_offset, index>> /\ CursorsKept
        /\ PullSave(w) =>
              LET c == frame[w].consumer_id
              IN  /\ UNCHANGED <<logFile, write_offset, index>>
                  /\ Keys(offsets') = Keys(offsets) \cup {c}
                  /\ Keys(Load(ledgerFile')) = Keys(Load(ledgerFile)) \cup {c}
                  /\ \A d \in Consumers \ {c} :
                        /\ get(offsets', d) = get(offsets, d)
                        /\ get(Load(ledgerFile'), d) = get(Load(ledgerFile), d)

C24_EmptyFrame ==
    \A w \in Workers, c \in Consumers :
        PullEmpty(w, c) =>
            /\ UNCHANGED <<logFile, write_offset, index>>
            /\ CursorsKept
            /\ (~HasKey(offsets, c) => ~HasKey(offsets', c))

\* C24: frame conditions of the queue.  A push changes no cursor, no index
\* entry that exists and no stored record; a successful pull by c changes
\* the cursor of c, in the table and in the ledger file, and nothing else;
\* a pull that returns None changes nothing in memory or on disk, and
\* creates no entry for its consumer.
C24_Frames == [][C24_PushFrame /\ C24_PullFrame /\ C24_EmptyFrame]_vars

\* Two pushes, c1 pulled both and then got None, c2 never pulled and has
\* no entry; the ledger file holds the table.
C24_Witness ==
    /\ Len(acked) >= 2
    /\ received["c1"] = AckedMessages
    /\ received["c2"] = <<>>
    /\ returned.kind = "EMPTY"
    /\ Keys(offsets) = {"c1"}
    /\ Load(ledgerFile) = offsets

\* With no call in progress the table in memory is the one in the file.
C25_Agreement == lock = None => Load(ledgerFile) = offsets

\* A pull that ends with an error leaves the cursors in memory alone.
C25_ErrorKeepsCursor ==
    \A w \in Workers :
        (pc[w] = "pull_save" /\ pc'[w] = "idle" /\ returned'.kind = "ERR")
            => offsets' = offsets

\* C25: ledger memory/disk agreement on failure.  With no operation in
\* progress the cursor table in memory equals the table the ledger file
\* holds; a pull that fails while persisting reports the error and leaves
\* the cursor in memory where it was, so that a cursor counts the messages
\* its consumer received.
C25_LedgerAgreement ==
    /\ [](C25_Agreement
          /\ (lock = None => \A c \in Consumers : Cursor(c) = Len(received[c])))
    /\ [][C25_ErrorKeepsCursor]_vars

\* The cursor c had when the broker started: every successful pull since
\* moved it by one.
StartCursor(c) == Cursor(c) - Len(received[c])

\* The pulls that succeeded for c delivered the ordinals StartCursor(c),
\* StartCursor(c) + 1, ... in this order, each once.
C26_Consecutive ==
    \A c \in Consumers :
        phase = "up" =>
            /\ StartCursor(c) >= 0
            /\ received[c] # <<>> => Cursor(c) <= Len(acked)
            /\ received[c] = SubSeq(AckedMessages, StartCursor(c) + 1, Cursor(c))

\* The cursor and the count of successful pulls move together.
C26_StartStays ==
    \A c \in Consumers :
        (phase = "up" /\ phase' = "up") =>
            get(offsets', c) - Len(received'[c]) = StartCursor(c)

\* The pull that stores its cursor read it when it took the lock, and
\* nobody moved it since: it delivers the ordinal the cursor names and
\* moves the cursor by one.
C26_OwnOrdinal ==
    \A w \in Workers :
        PullSave(w) =>
            LET c == frame[w].consumer_id
            IN  /\ frame[w].consumer_offset = Cursor(c)
                /\ get(offsets', c) = Cursor(c) + 1
                /\ returned'.message = acked[Cursor(c) + 1].msg
                /\ conn'[w].response = format_msg(acked[Cursor(c) + 1].msg)

\* C26: pulls racing on one consumer identity.  However the pulls of two
\* connections for one consumer interleave, each successful pull delivers
\* the ordinal the cursor names when it stores it, the ordinals delivered
\* are consecutive from the cursor the consumer had at the start, and the
\* cursor has advanced by the number of successful pulls: no message is
\* delivered twice to the consumer, none is skipped.
C26_RacingPulls ==
    []C26_Consecutive /\ [][C26_StartStays /\ C26_OwnOrdinal]_vars

\* Both connections hold a MSG response for c1, neither written yet: the
\* two pulls were in flight together and delivered ordinals 0 and 1, two
\* different messages.
C26_Witness ==
    /\ \A w \in Workers :
          /\ conn[w].st = "write"
          /\ conn[w].response.kind = "MSG"
          /\ conn[w].command = [cmd |-> PULL, args |-> <<ConsumerName("c1")>>]
    /\ conn["w1"].response # conn["w2"].response
    /\ received["c1"] = SubSeq(AckedMessages, 1, 2)
    /\ Cursor("c1") = 2

\* A call of handle was submitted to the executor and has not returned.
Dispatched(w) == conn[w].st = "exec"

\* C21: shutdown ordering.  stop() closes the log when every call of
\* handle that was submitted to the executor has returned, and shuts the
\* executor down after that: no submitted push or pull runs on a closed
\* log.
C21_ShutdownOrder ==
    /\ [][(phase = "up" /\ phase' = "closed") =>
            \A w \in Workers : ~Dispatched(w)]_vars
    /\ [](phase = "closed" => \A w \in Workers : ~Dispatched(w))
    /\ [](server.executor = "shutdown" => phase = "closed")

\* stop() was called.
Stopping == server.stop # "no"

\* stop(), once called, returns.
C22_StopCompletes == Stopping ~> server.stop = "stopped"

\* C22: shutdown liveness.  Once stop() was called, stop() returns and the
\* read loop of every connection ends, also that of a peer that stays
\* connected and sends nothing more.
C22_ShutdownLive ==
    Stopping ~> (server.stop = "stopped"
                 /\ \A w \in Workers : conn[w].st = "closed")

====
